---- MODULE Spec2Model ----
(***************************************************************************)
(* http-dataserve: the paginated mock-data service of src/main.py.         *)
(*                                                                         *)
(* Two request handlers (get_data, get_data_with_date_formats) validate    *)
(* three query parameters, compute a page of a virtual record set and      *)
(* synthesize one record per index of the page.  The synthesizers draw     *)
(* from the random module and the wall clock; here every such draw is an   *)
(* explicit input (a "draw" record), so that a synthesizer is a function   *)
(* of (id, draw) and the handlers are functions of (request, draws).       *)
(*                                                                         *)
(* Text is modelled in two ways: date and time renderings, which the       *)
(* properties decode again, and random strings are sequences of           *)
(* one-character strings; vocabulary entries are plain strings.            *)
(* Floats rounded to two decimals are integers counting hundredths.        *)
(***************************************************************************)
EXTENDS Integers, Sequences, FiniteSets, TLC

(***************************************************************************)
(* TLC keeps the fields of a record in the order in which the module first *)
(* names them.  Every field of the model is named here once, and every     *)
(* record below lists its fields in this order, so that a record is built  *)
(* the way TLC stores it.                                                  *)
(***************************************************************************)
FieldOrder ==
    [exc |-> 1, none |-> 2, value |-> 3,
     year |-> 4, month |-> 5, day |-> 6, hour |-> 7, minute |-> 8, second |-> 9,
     whole |-> 10, microsecond |-> 11,
     id |-> 12, uuid |-> 13, name |-> 14, name_picks |-> 15,
     email |-> 16, username |-> 17, user_picks |-> 18, domain |-> 19, domain_pick |-> 20,
     age |-> 21, height |-> 22, weight |-> 23, is_active |-> 24, balance |-> 25,
     birth_date |-> 26, birth_year |-> 27, birth_month |-> 28, birth_day |-> 29,
     created_at |-> 30, now |-> 31, login_now |-> 32, zone |-> 33,
     created_year |-> 34, created_month |-> 35, created_day |-> 36,
     created_hour |-> 37, created_minute |-> 38,
     birth_date_iso |-> 39, birth_date_us |-> 40, birth_date_eu |-> 41,
     birth_date_long |-> 42, created_at_iso |-> 43, created_at_timestamp |-> 44,
     created_at_readable |-> 45,
     tags |-> 46, num_tags |-> 47, tags_perm |-> 48,
     metadata |-> 49, department |-> 50, department_pick |-> 51,
     location |-> 52, location_pick |-> 53, experience_years |-> 54,
     skills |-> 55, num_skills |-> 56, skills_perm |-> 57,
     certification |-> 58, last_login |-> 59,
     score |-> 60, score_choice |-> 61, description |-> 62, description_choice |-> 63,
     template |-> 64,
     endpoint |-> 65, query |-> 66, status |-> 67, body |-> 68, calls |-> 69, core |-> 70,
     detail |-> 71, data |-> 72, total |-> 73, page |-> 74, page_size |-> 75,
     total_records |-> 76, total_pages |-> 77, has_next |-> 78, has_previous |-> 79,
     next_index |-> 80, stage |-> 81, ids |-> 82, fetched |-> 83, last_count |-> 84,
     draws |-> 85]

VARIABLES request, response, synth_calls, core_entered, draw, record, inflight, rng,
          walk, runs

vars == <<request, response, synth_calls, core_entered, draw, record, inflight, rng,
          walk, runs>>

(***************************************************************************)
(* Exceptions: an operation that raises yields an exception record.        *)
(***************************************************************************)
Raise(kind) == [exc |-> kind]

IsExc(v) == "exc" \in DOMAIN v

(***************************************************************************)
(* Calendar arithmetic of the datetime module, as main.py uses it.         *)
(***************************************************************************)
is_leap(y) == (y % 4 = 0) /\ ((y % 100 # 0) \/ (y % 400 = 0))

days_in_month(y, m) ==
    IF m = 2 THEN (IF is_leap(y) THEN 29 ELSE 28)
    ELSE IF m \in {4, 6, 9, 11} THEN 30 ELSE 31

days_before_year(y) ==
    (y - 1) * 365 + ((y - 1) \div 4) - ((y - 1) \div 100) + ((y - 1) \div 400)

RECURSIVE days_before_month(_, _)
days_before_month(y, m) ==
    IF m = 1 THEN 0 ELSE days_before_month(y, m - 1) + days_in_month(y, m - 1)

\* date.toordinal(): day 1 is 0001-01-01.
toordinal(y, m, d) == days_before_year(y) + days_before_month(y, m) + d

\* toordinal of 1970-01-01
EpochOrdinal == toordinal(1970, 1, 1)

\* date.weekday(): Monday is 0.
weekday(y, m, d) == (toordinal(y, m, d) + 6) % 7

\* date(year, month, day): ValueError unless it is a day of the calendar.
date(y, m, d) ==
    IF y \in 1..9999 /\ m \in 1..12 /\ d >= 1 /\ d <= days_in_month(y, m)
    THEN [year |-> y, month |-> m, day |-> d]
    ELSE Raise("ValueError")

\* A variant of datetime_replace that also sets second and microsecond to 0.
datetime_replace_whole_minute(dt, y, m, d, hh, mi) ==
    IF y \in 1..9999 /\ m \in 1..12 /\ d >= 1 /\ d <= days_in_month(y, m)
       /\ hh \in 0..23 /\ mi \in 0..59
    THEN [year |-> y, month |-> m, day |-> d, hour |-> hh, minute |-> mi,
          second |-> 0, microsecond |-> 0]
    ELSE Raise("ValueError")

\* datetime.replace(year=, month=, day=, hour=, minute=): the five fields are
\* replaced, second and microsecond are kept; ValueError when the result is
\* no valid date or time.
datetime_replace(dt, y, m, d, hh, mi) ==
    IF y \in 1..9999 /\ m \in 1..12 /\ d >= 1 /\ d <= days_in_month(y, m)
       /\ hh \in 0..23 /\ mi \in 0..59
    THEN [year |-> y, month |-> m, day |-> d, hour |-> hh, minute |-> mi,
          second |-> dt.second, microsecond |-> dt.microsecond]
    ELSE Raise("ValueError")

(***************************************************************************)
(* Rendering: isoformat() and strftime().                                  *)
(***************************************************************************)
DigitChar == <<"0", "1", "2", "3", "4", "5", "6", "7", "8", "9">>

Digit(n) == DigitChar[n + 1]

Pad2(n) == <<Digit((n \div 10) % 10), Digit(n % 10)>>

Pad4(n) == <<Digit((n \div 1000) % 10), Digit((n \div 100) % 10),
             Digit((n \div 10) % 10), Digit(n % 10)>>

Pad6(n) == <<Digit((n \div 100000) % 10), Digit((n \div 10000) % 10),
             Digit((n \div 1000) % 10), Digit((n \div 100) % 10),
             Digit((n \div 10) % 10), Digit(n % 10)>>

\* The C locale's names (the server never calls setlocale for LC_TIME).
MonthName ==
    << <<"J","a","n","u","a","r","y">>, <<"F","e","b","r","u","a","r","y">>,
       <<"M","a","r","c","h">>, <<"A","p","r","i","l">>, <<"M","a","y">>,
       <<"J","u","n","e">>, <<"J","u","l","y">>, <<"A","u","g","u","s","t">>,
       <<"S","e","p","t","e","m","b","e","r">>, <<"O","c","t","o","b","e","r">>,
       <<"N","o","v","e","m","b","e","r">>, <<"D","e","c","e","m","b","e","r">> >>

MonthAbbr == [m \in 1..12 |-> SubSeq(MonthName[m], 1, 3)]

DayAbbr ==
    << <<"M","o","n">>, <<"T","u","e">>, <<"W","e","d">>, <<"T","h","u">>,
       <<"F","r","i">>, <<"S","a","t">>, <<"S","u","n">> >>

\* One strftime directive (or a literal character) applied to a date or datetime.
strftime_item(dt, item) ==
    CASE item = "%Y" -> Pad4(dt.year)
      [] item = "%m" -> Pad2(dt.month)
      [] item = "%d" -> Pad2(dt.day)
      [] item = "%B" -> MonthName[dt.month]
      [] item = "%b" -> MonthAbbr[dt.month]
      [] item = "%a" -> DayAbbr[weekday(dt.year, dt.month, dt.day) + 1]
      [] item = "%I" -> Pad2(IF dt.hour % 12 = 0 THEN 12 ELSE dt.hour % 12)
      [] item = "%M" -> Pad2(dt.minute)
      [] item = "%p" -> (IF dt.hour < 12 THEN <<"A", "M">> ELSE <<"P", "M">>)
      [] OTHER -> <<item>>

RECURSIVE strftime(_, _)
strftime(dt, fmt) ==
    IF fmt = <<>> THEN <<>>
    ELSE strftime_item(dt, Head(fmt)) \o strftime(dt, Tail(fmt))

\* date.isoformat(): YYYY-MM-DD
date_isoformat(dt) ==
    Pad4(dt.year) \o <<"-">> \o Pad2(dt.month) \o <<"-">> \o Pad2(dt.day)

\* datetime.isoformat(): YYYY-MM-DDTHH:MM:SS, then .ffffff unless microsecond is 0.
datetime_isoformat(dt) ==
    date_isoformat(dt) \o <<"T">> \o Pad2(dt.hour) \o <<":">> \o Pad2(dt.minute)
        \o <<":">> \o Pad2(dt.second)
        \o (IF dt.microsecond = 0 THEN <<>> ELSE <<".">> \o Pad6(dt.microsecond))

\* datetime.timestamp() of a naive datetime: its fields are read as local time
\* of the server's zone (utcoffset seconds east of UTC); a float, here the
\* pair of whole seconds and microseconds.
datetime_timestamp(dt, utcoffset) ==
    [whole |-> (toordinal(dt.year, dt.month, dt.day) - EpochOrdinal) * 86400
                     + dt.hour * 3600 + dt.minute * 60 + dt.second - utcoffset,
     microsecond |-> dt.microsecond]

\* A variant of int_of_float that rounds to the nearest whole number.
int_of_float_rounded(x) == IF x.microsecond >= 500000 THEN x.whole + 1 ELSE x.whole

\* int(float): truncation towards zero.
int_of_float(x) ==
    IF x.whole < 0 /\ x.microsecond > 0 THEN x.whole + 1 ELSE x.whole

(***************************************************************************)
(* The random module.  randint(a, b) is the set of its outcomes; choices   *)
(* and sample take the drawn positions as an argument.                     *)
(***************************************************************************)
randint(a, b) == a..b

\* random.choices(population, k=k): k positions drawn with replacement.
random_choices(population, k, picks) == [i \in 1..k |-> population[picks[i]]]

\* random.sample(population, k): the first k entries of a drawn arrangement of
\* the population (perm, a sequence of distinct positions); ValueError when k
\* is larger than the population or negative.  The result is wrapped in a
\* record so that a raised exception can be told from it.
random_sample(population, k, perm) ==
    IF k < 0 \/ k > Len(population) THEN Raise("ValueError")
    ELSE [value |-> [i \in 1..k |-> population[perm[i]]]]

ascii_lowercase ==
    <<"a","b","c","d","e","f","g","h","i","j","k","l","m",
      "n","o","p","q","r","s","t","u","v","w","x","y","z">>

ascii_uppercase ==
    <<"A","B","C","D","E","F","G","H","I","J","K","L","M",
      "N","O","P","Q","R","S","T","U","V","W","X","Y","Z">>

\* string.ascii_letters + string.digits
Alphabet == ascii_lowercase \o ascii_uppercase \o DigitChar

\* str.lower(), character by character.
lower_char(c) ==
    IF \E i \in 1..26 : ascii_uppercase[i] = c
    THEN ascii_lowercase[CHOOSE i \in 1..26 : ascii_uppercase[i] = c]
    ELSE c

str_lower(s) == [i \in 1..Len(s) |-> lower_char(s[i])]

generate_random_string(length, picks) == random_choices(Alphabet, length, picks)

EmailDomains == <<"gmail.com", "yahoo.com", "hotmail.com", "example.com", "test.org">>

\* f"{username}@{domain}": the local part as characters, the domain as drawn.
generate_random_email(d) ==
    [username |-> str_lower(generate_random_string(8, d.user_picks)),
     domain |-> EmailDomains[d.domain_pick]]

all_tags ==
    <<"python", "javascript", "api", "web", "mobile", "data", "ai", "ml",
      "backend", "frontend", "database", "cloud", "devops", "security">>

NumTagsRange == randint(1, 5)

\* A variant of generate_random_tags that draws with replacement
\* (random.choices): here the third pick repeats the first.
generate_random_tags_with_replacement(d) ==
    [value |-> [i \in 1..d.num_tags |-> all_tags[d.tags_perm[((i - 1) % 2) + 1]]]]

generate_random_tags(d) == random_sample(all_tags, d.num_tags, d.tags_perm)

Departments == <<"Engineering", "Marketing", "Sales", "HR", "Finance">>

Locations == <<"New York", "San Francisco", "London", "Tokyo", "Berlin">>

all_skills == <<"Python", "Java", "React", "Node.js", "SQL", "Docker">>

\* A variant of NumSkillsRange that starts at 1.
NumSkillsRange_from_1 == randint(1, 4)

NumSkillsRange == randint(2, 4)

ExperienceRange == randint(1, 20)

generate_random_metadata(d) ==
    LET skills == random_sample(all_skills, d.num_skills, d.skills_perm)
    IN  IF IsExc(skills) THEN skills
        ELSE [department |-> Departments[d.department_pick],
              location |-> Locations[d.location_pick],
              experience_years |-> d.experience_years,
              skills |-> skills.value,
              certification |-> d.certification,
              last_login |-> datetime_isoformat(d.login_now)]

AgeRange == randint(18, 80)

BirthYearRange == randint(1940, 2005)

BirthMonthRange == randint(1, 12)

\* A variant of BirthDayRange that draws every day number a month can have.
BirthDayRange_to_31 == randint(1, 31)

BirthDayRange == randint(1, 28)

CreatedYearRange == randint(2020, 2024)

CreatedMonthRange == randint(1, 12)

CreatedDayRange == randint(1, 28)

CreatedHourRange == randint(0, 23)

CreatedMinuteRange == randint(0, 59)

\* A variant of description_for that embeds the loop index, the id before.
description_for_loop_index(id) ==
    [id |-> id - 1, template |-> "This is a sample description for user {id}"]

\* f"This is a sample description for user {id}": the template and the id.
description_for(id) == [id |-> id, template |-> "This is a sample description for user {id}"]

\* None
None == [none |-> TRUE]

IsNone(v) == "none" \in DOMAIN v

(***************************************************************************)
(* The record synthesizers.  d is the draw: every outcome of the random    *)
(* module, of uuid4, of the wall clock and of the zone database (the       *)
(* server zone's offset from UTC) that one call consumes.                  *)
(* A float rounded to two decimals is the integer of its hundredths.       *)
(***************************************************************************)
UserPrefix == <<"U", "s", "e", "r", " ">>

\* A variant of Optional that never gives None.
Optional_always_present(present, v) == [value |-> v]

Optional(present, v) == IF present THEN [value |-> v] ELSE None

generate_data_object(id, d) ==
    LET birth == date(d.birth_year, d.birth_month, d.birth_day)
        tags == generate_random_tags(d)
        metadata == generate_random_metadata(d)
    IN  IF IsExc(birth) THEN birth
        ELSE IF IsExc(tags) THEN tags
        ELSE IF IsExc(metadata) THEN metadata
        ELSE [id |-> id,
              uuid |-> d.uuid,
              name |-> UserPrefix \o generate_random_string(6, d.name_picks),
              email |-> generate_random_email(d),
              age |-> d.age,
              height |-> d.height,
              weight |-> d.weight,
              is_active |-> d.is_active,
              balance |-> d.balance,
              birth_date |-> date_isoformat(birth),
              created_at |-> datetime_isoformat(d.now),
              tags |-> tags.value,
              metadata |-> metadata,
              score |-> Optional(d.score_choice, d.score),
              description |-> IF d.description_choice THEN description_for(id) ELSE None]

\* The strftime formats of generate_data_object_with_different_dates.
FormatUS == <<"%m", "/", "%d", "/", "%Y">>

FormatEU == <<"%d", "/", "%m", "/", "%Y">>

FormatLong == <<"%B", " ", "%d", ",", " ", "%Y">>

FormatReadable ==
    <<"%a", ",", " ", "%b", " ", "%d", " ", "%Y", " ", "%I", ":", "%M", " ", "%p">>

\* A variant of birth_date_us_of that writes the day first.
birth_date_us_of_day_first(birth_date_obj) == strftime(birth_date_obj, FormatEU)

birth_date_us_of(birth_date_obj) == strftime(birth_date_obj, FormatUS)

birth_date_eu_of(birth_date_obj) == strftime(birth_date_obj, FormatEU)

birth_date_long_of(birth_date_obj) == strftime(birth_date_obj, FormatLong)

created_at_timestamp_of(created_datetime, utcoffset) ==
    int_of_float(datetime_timestamp(created_datetime, utcoffset))

created_at_readable_of(created_datetime) == strftime(created_datetime, FormatReadable)

generate_data_object_with_different_dates(id, d) ==
    LET birth_date_obj == date(d.birth_year, d.birth_month, d.birth_day)
        created_datetime ==
            datetime_replace(d.now, d.created_year, d.created_month, d.created_day,
                             d.created_hour, d.created_minute)
        tags == generate_random_tags(d)
        metadata == generate_random_metadata(d)
    IN  IF IsExc(birth_date_obj) THEN birth_date_obj
        ELSE IF IsExc(created_datetime) THEN created_datetime
        ELSE IF IsExc(tags) THEN tags
        ELSE IF IsExc(metadata) THEN metadata
        ELSE [id |-> id,
              uuid |-> d.uuid,
              name |-> UserPrefix \o generate_random_string(6, d.name_picks),
              email |-> generate_random_email(d),
              age |-> d.age,
              height |-> d.height,
              weight |-> d.weight,
              is_active |-> d.is_active,
              balance |-> d.balance,
              birth_date_iso |-> date_isoformat(birth_date_obj),
              birth_date_us |-> birth_date_us_of(birth_date_obj),
              birth_date_eu |-> birth_date_eu_of(birth_date_obj),
              birth_date_long |-> birth_date_long_of(birth_date_obj),
              created_at_iso |-> datetime_isoformat(created_datetime),
              created_at_timestamp |-> created_at_timestamp_of(created_datetime, d.zone),
              created_at_readable |-> created_at_readable_of(created_datetime),
              tags |-> tags.value,
              metadata |-> metadata,
              score |-> Optional(d.score_choice, d.score),
              description |-> IF d.description_choice THEN description_for(id) ELSE None]

(***************************************************************************)
(* The request handlers.  A query parameter is <<>> when the request       *)
(* omits it and <<v>> when it gives the integer v.                         *)
(***************************************************************************)
\* Query(default, ...): the value a handler receives for a parameter.
Query(param, default) == IF param = <<>> THEN default ELSE param[1]

\* range(a, b): a, a+1, ..., b-1; empty when b <= a.
range(a, b) == [k \in 1..(b - a) |-> a + k - 1]

min(a, b) == IF a <= b THEN a ELSE b

\* The draw the k-th synthesizer call of one request consumes.
DrawAt(draws, k) == draws[((k - 1) % Len(draws)) + 1]

\* FastAPI's answer to a request whose parameters fail their Query constraints.
validation_error(bad) == [status |-> 422, body |-> [detail |-> bad], calls |-> <<>>, core |-> FALSE]

\* An exception escaping a handler.
internal_error(e, calls) == [status |-> 500, body |-> e, calls |-> calls, core |-> TRUE]

\* The records of a page, or the first exception a synthesizer call raises.
\* results[k] is the outcome of the k-th call; the loop stops at the first raise.
page_outcome(results, ids, envelope) ==
    LET failed == {k \in 1..Len(results) : IsExc(results[k])}
    IN  IF failed = {}
        THEN [status |-> 200, body |-> envelope, calls |-> ids, core |-> TRUE]
        ELSE LET first == CHOOSE k \in failed : \A j \in failed : k <= j
             IN  internal_error(results[first], SubSeq(ids, 1, first))

\* The Query constraints of get_data: the parameters that violate them.
\* A variant of get_data_invalid without the upper limit of page_size.
get_data_invalid_no_le(page, page_size, total_records) ==
    {n \in {"page"} : ~(page >= 1)}
        \cup {n \in {"page_size"} : ~(page_size >= 1)}
        \cup {n \in {"total_records"} : ~(total_records >= 1 /\ total_records <= 10000)}

get_data_invalid(page, page_size, total_records) ==
    {n \in {"page"} : ~(page >= 1)}
        \cup {n \in {"page_size"} : ~(page_size >= 1 /\ page_size <= 100)}
        \cup {n \in {"total_records"} : ~(total_records >= 1 /\ total_records <= 10000)}

\* A variant of get_data_total_pages that rounds down.
get_data_total_pages_floor(total_items, page_size) == total_items \div page_size

get_data_total_pages(total_items, page_size) == (total_items + page_size - 1) \div page_size

\* A variant of get_data_start_index that refuses to go past the first page.
get_data_start_index_first_page(page, page_size) == 0

get_data_start_index(page, page_size) == (page - 1) * page_size

\* A variant of get_data_end_index that forgets the cap at total_items.
get_data_end_index_uncapped(start_index, page_size, total_items) == start_index + page_size

get_data_end_index(start_index, page_size, total_items) ==
    min(start_index + page_size, total_items)

\* A variant of get_data_has_next that is off by one page.
get_data_has_next_inclusive(page, total_pages) == page <= total_pages

\* A variant of get_data_has_next that counts pages from 0.
get_data_has_next_zero_based(page, total_pages) == page + 1 < total_pages

get_data_has_next(page, total_pages) == page < total_pages

get_data_has_previous(page) == page > 1

\* A variant of get_data_body that takes each record's id from the generator,
\* as the age is taken.
get_data_body_drawn_ids(page, page_size, total_records, draws) ==
    LET total_items == total_records
        total_pages == get_data_total_pages(total_items, page_size)
        start_index == get_data_start_index(page, page_size)
        end_index == get_data_end_index(start_index, page_size, total_items)
        indices == range(start_index, end_index)
        ids == [k \in 1..Len(indices) |-> DrawAt(draws, k).age]
        data == [k \in 1..Len(indices) |-> generate_data_object(ids[k], DrawAt(draws, k))]
    IN  page_outcome(data, ids,
                     [data |-> data,
                      total |-> total_items,
                      page |-> page,
                      page_size |-> page_size,
                      total_pages |-> total_pages,
                      has_next |-> get_data_has_next(page, total_pages),
                      has_previous |-> get_data_has_previous(page)])

get_data_body(page, page_size, total_records, draws) ==
    LET total_items == total_records
        total_pages == get_data_total_pages(total_items, page_size)
        start_index == get_data_start_index(page, page_size)
        end_index == get_data_end_index(start_index, page_size, total_items)
        indices == range(start_index, end_index)
        ids == [k \in 1..Len(indices) |-> indices[k] + 1]
        data == [k \in 1..Len(indices) |-> generate_data_object(ids[k], DrawAt(draws, k))]
    IN  page_outcome(data, ids,
                     [data |-> data,
                      total |-> total_items,
                      page |-> page,
                      page_size |-> page_size,
                      total_pages |-> total_pages,
                      has_next |-> get_data_has_next(page, total_pages),
                      has_previous |-> get_data_has_previous(page)])

\* A variant of get_data whose page_size defaults to 20.
get_data_default_page_size_20(q, draws) ==
    LET page == Query(q.page, 1)
        page_size == Query(q.page_size, 20)
        total_records == Query(q.total_records, 1000)
        bad == get_data_invalid(page, page_size, total_records)
    IN  IF bad # {} THEN validation_error(bad)
        ELSE get_data_body(page, page_size, total_records, draws)

get_data(q, draws) ==
    LET page == Query(q.page, 1)
        page_size == Query(q.page_size, 10)
        total_records == Query(q.total_records, 1000)
        bad == get_data_invalid(page, page_size, total_records)
    IN  IF bad # {} THEN validation_error(bad)
        ELSE get_data_body(page, page_size, total_records, draws)

\* The Query constraints of get_data_with_date_formats.
get_data_with_date_formats_invalid(page, page_size, total_records) ==
    {n \in {"page"} : ~(page >= 1)}
        \cup {n \in {"page_size"} : ~(page_size >= 1 /\ page_size <= 100)}
        \cup {n \in {"total_records"} : ~(total_records >= 1 /\ total_records <= 10000)}

\* A variant of get_data_with_date_formats_total_pages that always adds a page.
get_data_with_date_formats_total_pages_plus_one(total_items, page_size) ==
    (total_items \div page_size) + 1

get_data_with_date_formats_total_pages(total_items, page_size) ==
    (total_items + page_size - 1) \div page_size

\* A variant of get_data_with_date_formats_start_index that counts pages from 0.
get_data_with_date_formats_start_index_zero_based(page, page_size) == page * page_size

get_data_with_date_formats_start_index(page, page_size) == (page - 1) * page_size

\* A variant of get_data_with_date_formats_end_index that takes the end as the
\* last index of the page, not the one after it.
get_data_with_date_formats_end_index_inclusive(start_index, page_size, total_items) ==
    min(start_index + page_size + 1, total_items)

get_data_with_date_formats_end_index(start_index, page_size, total_items) ==
    min(start_index + page_size, total_items)

\* A variant of get_data_with_date_formats_has_next that is off by one page.
get_data_with_date_formats_has_next_inclusive(page, total_pages) == page <= total_pages

get_data_with_date_formats_has_next(page, total_pages) == page < total_pages

\* A variant of get_data_with_date_formats_has_previous that counts pages from 0.
get_data_with_date_formats_has_previous_from_zero(page) == page > 0

get_data_with_date_formats_has_previous(page) == page > 1

\* A variant of get_data_with_date_formats_body that reports a page past the
\* end as the last page.
get_data_with_date_formats_body_page_clamped(page, page_size, total_records, draws) ==
    LET total_items == total_records
        total_pages == get_data_with_date_formats_total_pages(total_items, page_size)
        start_index == get_data_with_date_formats_start_index(page, page_size)
        end_index == get_data_with_date_formats_end_index(start_index, page_size, total_items)
        indices == range(start_index, end_index)
        ids == [k \in 1..Len(indices) |-> indices[k] + 1]
        data == [k \in 1..Len(indices) |->
                    generate_data_object_with_different_dates(ids[k], DrawAt(draws, k))]
    IN  page_outcome(data, ids,
                     [data |-> data,
                      total |-> total_items,
                      page |-> min(page, total_pages),
                      page_size |-> page_size,
                      total_pages |-> total_pages,
                      has_next |-> get_data_with_date_formats_has_next(page, total_pages),
                      has_previous |-> get_data_with_date_formats_has_previous(page)])

get_data_with_date_formats_body(page, page_size, total_records, draws) ==
    LET total_items == total_records
        total_pages == get_data_with_date_formats_total_pages(total_items, page_size)
        start_index == get_data_with_date_formats_start_index(page, page_size)
        end_index == get_data_with_date_formats_end_index(start_index, page_size, total_items)
        indices == range(start_index, end_index)
        ids == [k \in 1..Len(indices) |-> indices[k] + 1]
        data == [k \in 1..Len(indices) |->
                    generate_data_object_with_different_dates(ids[k], DrawAt(draws, k))]
    IN  page_outcome(data, ids,
                     [data |-> data,
                      total |-> total_items,
                      page |-> page,
                      page_size |-> page_size,
                      total_pages |-> total_pages,
                      has_next |-> get_data_with_date_formats_has_next(page, total_pages),
                      has_previous |-> get_data_with_date_formats_has_previous(page)])

get_data_with_date_formats(q, draws) ==
    LET page == Query(q.page, 1)
        page_size == Query(q.page_size, 10)
        total_records == Query(q.total_records, 1000)
        bad == get_data_with_date_formats_invalid(page, page_size, total_records)
    IN  IF bad # {} THEN validation_error(bad)
        ELSE get_data_with_date_formats_body(page, page_size, total_records, draws)

\* get_available_endpoints: the defaults it documents for a data endpoint.
get_available_endpoints_defaults(path) ==
    CASE path = "/api/data" -> [page |-> 1, page_size |-> 10, total_records |-> 1000]
      [] path = "/api/data-with-date-formats" ->
             [page |-> 1, page_size |-> 10, total_records |-> 1000]

(***************************************************************************)
(* Inputs.  Requests take their parameters from small sets that hold the   *)
(* values around every limit of the Query constraints; draws take every    *)
(* randint outcome from the ends of its range.                             *)
(***************************************************************************)
MaxPage == 6

MaxSmallPageSize == 4

MaxSmallTotal == 10

PageValues == (-1..MaxPage) \cup {100, 101}

PageSizeValues == (0..MaxSmallPageSize) \cup {99, 100, 101}

TotalValues == (0..MaxSmallTotal) \cup {9999, 10000, 10001}

Opt(S) == {<<>>} \cup {<<v>> : v \in S}

Queries == [page : Opt(PageValues), page_size : Opt(PageSizeValues),
            total_records : Opt(TotalValues)]

SetMin(S) == CHOOSE x \in S : \A y \in S : x <= y

SetMax(S) == CHOOSE x \in S : \A y \in S : x >= y

\* Offsets of the server's zone, in seconds east of UTC.
ServerZones == {-18000, 0, 19800}

\* Wall-clock readings of datetime.now().
NowEarly == [year |-> 2024, month |-> 2, day |-> 29, hour |-> 0, minute |-> 0,
             second |-> 0, microsecond |-> 0]

NowLate == [year |-> 2025, month |-> 12, day |-> 31, hour |-> 23, minute |-> 59,
            second |-> 59, microsecond |-> 999999]

NowMid == [year |-> 2025, month |-> 6, day |-> 15, hour |-> 12, minute |-> 30,
           second |-> 37, microsecond |-> 500000]

\* A draw with every ranged outcome at the low (hi = FALSE) or high end of its
\* range, the birth and creation months given, and the two optional fields
\* present or not.
CornerDraw(hi, month, now, zone, score_choice, description_choice) ==
    LET pick(S) == IF hi THEN SetMax(S) ELSE SetMin(S)
        uniform(a, b) == IF hi THEN b ELSE a
    IN  [uuid |-> IF hi THEN "ffffffff-ffff-4fff-bfff-ffffffffffff"
                        ELSE "00000000-0000-4000-8000-000000000000",
         name_picks |-> IF hi THEN <<62, 61, 52, 27, 26, 1>> ELSE <<1, 2, 3, 27, 28, 53>>,
         user_picks |-> IF hi THEN <<52, 51, 62, 1, 27, 27, 26, 53>>
                              ELSE <<27, 28, 29, 1, 2, 53, 54, 52>>,
         domain_pick |-> pick(1..Len(EmailDomains)),
         age |-> pick(AgeRange),
         height |-> uniform(15000, 20000),
         weight |-> uniform(4500, 12000),
         is_active |-> hi,
         balance |-> uniform(0, 10000000),
         birth_year |-> pick(BirthYearRange),
         birth_month |-> month,
         birth_day |-> pick(BirthDayRange),
         now |-> now,
         login_now |-> now,
         zone |-> zone,
         created_year |-> pick(CreatedYearRange),
         created_month |-> month,
         created_day |-> pick(CreatedDayRange),
         created_hour |-> pick(CreatedHourRange),
         created_minute |-> pick(CreatedMinuteRange),
         num_tags |-> pick(NumTagsRange),
         tags_perm |-> IF hi THEN [i \in 1..Len(all_tags) |-> Len(all_tags) + 1 - i]
                             ELSE [i \in 1..Len(all_tags) |-> i],
         department_pick |-> pick(1..Len(Departments)),
         location_pick |-> pick(1..Len(Locations)),
         experience_years |-> pick(ExperienceRange),
         num_skills |-> pick(NumSkillsRange),
         skills_perm |-> IF hi THEN [i \in 1..Len(all_skills) |-> Len(all_skills) + 1 - i]
                               ELSE [i \in 1..Len(all_skills) |-> i],
         certification |-> ~hi,
         score |-> uniform(0, 10000),
         score_choice |-> score_choice,
         description_choice |-> description_choice]

DrawA == CornerDraw(FALSE, SetMin(BirthMonthRange), NowEarly, 0, TRUE, TRUE)

DrawB == CornerDraw(TRUE, SetMax(BirthMonthRange), NowLate, 19800, TRUE, FALSE)

DrawC == CornerDraw(TRUE, 2, NowMid, -18000, FALSE, TRUE)

DrawD == CornerDraw(FALSE, 2, NowLate, 0, FALSE, FALSE)

\* The draws of one request: its k-th synthesizer call consumes the k-th entry,
\* cyclically.
DrawSchedules == {<<DrawA, DrawB>>, <<DrawB, DrawC>>, <<DrawC, DrawD>>, <<DrawD, DrawA>>}

\* No client is walking the pages.
NoWalk == [stage |-> "none"]

\* The connections that can have a request in flight at the same time.
Clients == {"a", "b"}

\* The slot of a connection without a request.
IdleRequest ==
    [endpoint |-> "none", query |-> <<>>, status |-> 0, body |-> None, data |-> <<>>,
     next_index |-> 0, stage |-> "idle"]

(***************************************************************************)
(* The service: one request at a time, each handled whole; its response is *)
(* serialized and then discarded, nothing is kept between requests.        *)
(***************************************************************************)
NoRequest == [endpoint |-> "none"]

NoResponse == [status |-> 0]

Init ==
    /\ request = NoRequest
    /\ response = NoResponse
    /\ synth_calls = <<>>
    /\ core_entered = FALSE
    /\ draw = None
    /\ record = None
    /\ inflight = [c \in Clients |-> IdleRequest]
    /\ rng = 0
    /\ walk = NoWalk
    /\ runs = <<>>

Serve(endpoint, q, out) ==
    /\ request' = [endpoint |-> endpoint, query |-> q]
    /\ response' = [status |-> out.status, body |-> out.body]
    /\ synth_calls' = out.calls
    /\ core_entered' = out.core
    /\ UNCHANGED <<draw, record, inflight, rng, walk, runs>>

GetData ==
    /\ request = NoRequest
    /\ \E q \in Queries, draws \in DrawSchedules :
           Serve("/api/data", q, get_data(q, draws))

GetDataWithDateFormats ==
    /\ request = NoRequest
    /\ \E q \in Queries, draws \in DrawSchedules :
           Serve("/api/data-with-date-formats", q,
                 get_data_with_date_formats(q, draws))

\* The response has been sent: the request's objects are gone.
Discard ==
    /\ request # NoRequest
    /\ request' = NoRequest
    /\ response' = NoResponse
    /\ synth_calls' = <<>>
    /\ core_entered' = FALSE
    /\ UNCHANGED <<draw, record, inflight, rng, walk, runs>>

Next == GetData \/ GetDataWithDateFormats \/ Discard

Spec == Init /\ [][Next]_vars

(***************************************************************************)
(* The synthesizers on their own: one call at a time.  The draws sweep     *)
(* every value of each date or time field against the ends of the ranges   *)
(* of the other fields, every creation date, and every wall-clock reading  *)
(* in every zone.                                                          *)
(***************************************************************************)
SynthIds == {1, 10000}

Ends(S) == {SetMin(S), SetMax(S)}

WallClocks == {NowEarly, NowMid, NowLate}

\* Birth dates: every year and month at the first and last day number, and every
\* month and day in the first and last year.
BirthSweep ==
    {[DrawA EXCEPT !.birth_year = y, !.birth_month = m, !.birth_day = dd] :
        y \in BirthYearRange, m \in BirthMonthRange, dd \in Ends(BirthDayRange)}
    \cup
    {[DrawB EXCEPT !.birth_year = y, !.birth_month = m, !.birth_day = dd] :
        y \in Ends(BirthYearRange), m \in BirthMonthRange, dd \in BirthDayRange}

\* Creation dates: every date the draws can give, at the first and the last
\* minute of the day.
CreatedDateSweep ==
    {[DrawC EXCEPT !.created_year = y, !.created_month = m, !.created_day = dd,
                   !.created_hour = hm[1], !.created_minute = hm[2]] :
        y \in CreatedYearRange, m \in CreatedMonthRange, dd \in CreatedDayRange,
        hm \in {<<SetMin(CreatedHourRange), SetMin(CreatedMinuteRange)>>,
                <<SetMax(CreatedHourRange), SetMax(CreatedMinuteRange)>>}}

\* Creation times: every hour and minute on one date, and the ends of both on
\* the first and the last date under every wall-clock reading and zone.
CreatedTimeSweep ==
    {[DrawC EXCEPT !.created_hour = hh, !.created_minute = mi] :
        hh \in CreatedHourRange, mi \in CreatedMinuteRange}
    \cup
    {[base EXCEPT !.now = n, !.zone = z, !.created_hour = hh, !.created_minute = mi] :
        base \in {DrawA, DrawB}, n \in WallClocks, z \in ServerZones,
        hh \in Ends(CreatedHourRange), mi \in Ends(CreatedMinuteRange)}

\* Arrangements of n positions: every rotation, forwards and backwards.
Arrangements(n) ==
    {[i \in 1..n |-> ((i - 1 + r) % n) + 1] : r \in 0..(n - 1)}
    \cup {[i \in 1..n |-> n - ((i - 1 + r) % n)] : r \in 0..(n - 1)}

\* Tags: every sample size under every rotation of the vocabulary.
TagsSweep ==
    {[DrawA EXCEPT !.num_tags = k, !.tags_perm = p] :
        k \in NumTagsRange, p \in Arrangements(Len(all_tags))}

\* Skills: every sample size under every arrangement of the vocabulary.
SkillsSweep ==
    {[DrawB EXCEPT !.num_skills = k, !.skills_perm = p] :
        k \in NumSkillsRange, p \in Permutations(1..Len(all_skills))}

CornerDraws == {DrawA, DrawB, DrawC, DrawD}

SynthDraws == CornerDraws \cup BirthSweep \cup CreatedDateSweep
                  \cup CreatedTimeSweep \cup TagsSweep \cup SkillsSweep

SynthInit ==
    /\ request = NoRequest
    /\ response = NoResponse
    /\ synth_calls = <<>>
    /\ core_entered = FALSE
    /\ draw = None
    /\ record = None
    /\ inflight = [c \in Clients |-> IdleRequest]
    /\ rng = 0
    /\ walk = NoWalk
    /\ runs = <<>>

\* One call of generate_data_object.
GenerateDataObject ==
    /\ IsNone(record)
    /\ \E d \in CornerDraws \cup BirthSweep \cup TagsSweep \cup SkillsSweep :
       \E id \in (IF d \in CornerDraws THEN SynthIds ELSE {1}) :
           /\ draw' = d
           /\ record' = generate_data_object(id, d)
    /\ synth_calls' = <<"generate_data_object">>
    /\ UNCHANGED <<request, response, core_entered, inflight, rng, walk, runs>>

\* One call of generate_data_object_with_different_dates.
GenerateDataObjectWithDifferentDates ==
    /\ IsNone(record)
    /\ \E d \in SynthDraws :
       \E id \in (IF d \in {DrawA, DrawB, DrawC, DrawD} THEN SynthIds ELSE {1}) :
           /\ draw' = d
           /\ record' = generate_data_object_with_different_dates(id, d)
    /\ synth_calls' = <<"generate_data_object_with_different_dates">>
    /\ UNCHANGED <<request, response, core_entered, inflight, rng, walk, runs>>

\* The caller drops the record.
Release ==
    /\ ~IsNone(record)
    /\ draw' = None
    /\ record' = None
    /\ synth_calls' = <<>>
    /\ UNCHANGED <<request, response, core_entered, inflight, rng, walk, runs>>

SynthNext == GenerateDataObject \/ GenerateDataObjectWithDifferentDates \/ Release

SynthSpec == SynthInit /\ [][SynthNext]_vars

(***************************************************************************)
(* The service under concurrent requests.  Every connection has its own    *)
(* request; the handler's locals (page, page_size, total_records, the      *)
(* loop index, data) live in the request.  The only object the requests    *)
(* share is the generator of the random module, rng: every synthesizer     *)
(* call takes the generator's next output and advances it.  A handler is   *)
(* split at its loop iterations: under one event loop the steps of a       *)
(* request run back to back, under threads or several workers they         *)
(* interleave; the specification allows both.                              *)
(***************************************************************************)
ConcTotal == 3

DataEndpoints == {"/api/data", "/api/data-with-date-formats"}

ConcQueries ==
    [page : {<<>>, <<0>>, <<2>>}, page_size : {<<2>>}, total_records : {<<ConcTotal>>}]

\* The outputs of the shared generator, in the order it gives them, cyclically.
RngStream == <<DrawA, DrawB, DrawC, DrawD>>

\* The parameters a handler receives for the request r.
page_of(r) == Query(r.query.page, 1)

page_size_of(r) == Query(r.query.page_size, 10)

total_records_of(r) == Query(r.query.total_records, 1000)

invalid_of(r) ==
    IF r.endpoint = "/api/data"
    THEN get_data_invalid(page_of(r), page_size_of(r), total_records_of(r))
    ELSE get_data_with_date_formats_invalid(page_of(r), page_size_of(r),
                                            total_records_of(r))

total_pages_of(r) ==
    IF r.endpoint = "/api/data"
    THEN get_data_total_pages(total_records_of(r), page_size_of(r))
    ELSE get_data_with_date_formats_total_pages(total_records_of(r), page_size_of(r))

start_index_of(r) ==
    IF r.endpoint = "/api/data"
    THEN get_data_start_index(page_of(r), page_size_of(r))
    ELSE get_data_with_date_formats_start_index(page_of(r), page_size_of(r))

end_index_of(r) ==
    IF r.endpoint = "/api/data"
    THEN get_data_end_index(start_index_of(r), page_size_of(r), total_records_of(r))
    ELSE get_data_with_date_formats_end_index(start_index_of(r), page_size_of(r),
                                              total_records_of(r))

\* A variant of loop_call that numbers the records by a counter the requests share.
loop_call_shared_counter(endpoint, i, g) ==
    IF endpoint = "/api/data"
    THEN generate_data_object(g + 1, RngStream[g + 1])
    ELSE generate_data_object_with_different_dates(g + 1, RngStream[g + 1])

\* data.append(generate_...(i + 1)) with the generator at position g.
loop_call(endpoint, i, g) ==
    IF endpoint = "/api/data"
    THEN generate_data_object(i + 1, RngStream[g + 1])
    ELSE generate_data_object_with_different_dates(i + 1, RngStream[g + 1])

\* The envelope the handler returns for the request r.
envelope_of(r) ==
    [data |-> r.data,
     total |-> total_records_of(r),
     page |-> page_of(r),
     page_size |-> page_size_of(r),
     total_pages |-> total_pages_of(r),
     has_next |-> IF r.endpoint = "/api/data"
                  THEN get_data_has_next(page_of(r), total_pages_of(r))
                  ELSE get_data_with_date_formats_has_next(page_of(r), total_pages_of(r)),
     has_previous |-> IF r.endpoint = "/api/data"
                      THEN get_data_has_previous(page_of(r))
                      ELSE get_data_with_date_formats_has_previous(page_of(r))]

ConcInit ==
    /\ request = NoRequest
    /\ response = NoResponse
    /\ synth_calls = <<>>
    /\ core_entered = FALSE
    /\ draw = None
    /\ record = None
    /\ inflight = [c \in Clients |-> IdleRequest]
    /\ rng = 0
    /\ walk = NoWalk
    /\ runs = <<>>

\* A request arrives on a connection.
Receive(c) ==
    /\ inflight[c].stage = "idle"
    /\ \E e \in DataEndpoints, q \in ConcQueries :
           inflight' = [inflight EXCEPT ![c] =
                           [endpoint |-> e, query |-> q, status |-> 0, body |-> None,
                            data |-> <<>>, next_index |-> 0, stage |-> "received"]]
    /\ UNCHANGED <<request, response, synth_calls, core_entered, draw, record, rng,
                   walk, runs>>

\* The Query constraints are checked; the handler is entered if they hold and
\* computes its loop range.
Enter(c) ==
    /\ inflight[c].stage = "received"
    /\ inflight' = [inflight EXCEPT ![c] =
                       IF invalid_of(@) # {}
                       THEN [@ EXCEPT !.status = 422,
                                      !.body = [detail |-> invalid_of(inflight[c])],
                                      !.stage = "responded"]
                       ELSE [@ EXCEPT !.next_index = start_index_of(inflight[c]),
                                      !.stage = "running"]]
    /\ UNCHANGED <<request, response, synth_calls, core_entered, draw, record, rng,
                   walk, runs>>

\* A variant of Iterate that puts the new record in front of the list.
Iterate_prepend(c) ==
    /\ inflight[c].stage = "running"
    /\ inflight[c].next_index < end_index_of(inflight[c])
    /\ LET made == loop_call(inflight[c].endpoint, inflight[c].next_index, rng)
       IN  inflight' = [inflight EXCEPT ![c] =
                           IF IsExc(made)
                           THEN [@ EXCEPT !.status = 500, !.body = made,
                                          !.stage = "responded"]
                           ELSE [@ EXCEPT !.data = <<made>> \o @,
                                          !.next_index = @ + 1]]
    /\ rng' = (rng + 1) % Len(RngStream)
    /\ UNCHANGED <<request, response, synth_calls, core_entered, draw, record, walk, runs>>

\* One iteration of the handler's loop: a synthesizer call that consumes the
\* generator's next output.
Iterate(c) ==
    /\ inflight[c].stage = "running"
    /\ inflight[c].next_index < end_index_of(inflight[c])
    /\ LET made == loop_call(inflight[c].endpoint, inflight[c].next_index, rng)
       IN  inflight' = [inflight EXCEPT ![c] =
                           IF IsExc(made)
                           THEN [@ EXCEPT !.status = 500, !.body = made,
                                          !.stage = "responded"]
                           ELSE [@ EXCEPT !.data = Append(@, made),
                                          !.next_index = @ + 1]]
    /\ rng' = (rng + 1) % Len(RngStream)
    /\ UNCHANGED <<request, response, synth_calls, core_entered, draw, record, walk, runs>>

\* The loop is over: the handler returns the envelope.
Return(c) ==
    /\ inflight[c].stage = "running"
    /\ inflight[c].next_index >= end_index_of(inflight[c])
    /\ inflight' = [inflight EXCEPT ![c] =
                       [@ EXCEPT !.status = 200, !.body = envelope_of(inflight[c]),
                                 !.stage = "responded"]]
    /\ UNCHANGED <<request, response, synth_calls, core_entered, draw, record, rng,
                   walk, runs>>

\* The response is sent and the request's objects are gone.
Send(c) ==
    /\ inflight[c].stage = "responded"
    /\ inflight' = [inflight EXCEPT ![c] = IdleRequest]
    /\ UNCHANGED <<request, response, synth_calls, core_entered, draw, record, rng,
                   walk, runs>>

ConcNext ==
    \E c \in Clients : Receive(c) \/ Enter(c) \/ Iterate(c) \/ Return(c) \/ Send(c)

ConcSpec == ConcInit /\ [][ConcNext]_vars

(***************************************************************************)
(* A client that walks the pages, as the page's Next button does: it asks  *)
(* for page 1, then for data.page + 1, with page_size and total_records    *)
(* fixed, and keeps the ids it has been given.  It may go on up to two     *)
(* pages past the end.                                                     *)
(***************************************************************************)
WalkPageSizes == (1..MaxSmallPageSize) \cup {100}

WalkTotals == (1..MaxSmallTotal) \cup {250}

\* The handler of an endpoint applied to explicit parameters.
call_endpoint(endpoint, page, page_size, total_records, draws) ==
    LET q == [page |-> <<page>>, page_size |-> <<page_size>>,
              total_records |-> <<total_records>>]
    IN  IF endpoint = "/api/data" THEN get_data(q, draws)
        ELSE get_data_with_date_formats(q, draws)

WalkInit ==
    /\ request = NoRequest
    /\ response = NoResponse
    /\ synth_calls = <<>>
    /\ core_entered = FALSE
    /\ draw = None
    /\ record = None
    /\ inflight = [c \in Clients |-> IdleRequest]
    /\ rng = 0
    /\ walk = NoWalk
    /\ runs = <<>>

StartWalk ==
    /\ walk = NoWalk
    /\ \E e \in DataEndpoints, s \in WalkPageSizes, t \in WalkTotals :
           walk' = [endpoint |-> e, page |-> 1, page_size |-> s, total_records |-> t,
                    total_pages |-> 0, has_next |-> FALSE, stage |-> "walking",
                    ids |-> <<>>, fetched |-> 0, last_count |-> 0]
    /\ UNCHANGED <<request, response, synth_calls, core_entered, draw, record,
                   inflight, rng, runs>>

\* One request for the next page, served whole; the client keeps what the
\* envelope says and adds the ids of the page to its list.
FetchPage ==
    /\ walk.stage = "walking"
    /\ walk.fetched = 0 \/ walk.page <= walk.total_pages + 2
    /\ \E draws \in DrawSchedules :
           LET out == call_endpoint(walk.endpoint, walk.page, walk.page_size,
                                    walk.total_records, draws)
           IN  walk' = IF out.status = 200
                       THEN [walk EXCEPT
                                !.page = @ + 1,
                                !.total_pages = out.body.total_pages,
                                !.has_next = out.body.has_next,
                                !.ids = @ \o [k \in 1..Len(out.body.data) |->
                                                 out.body.data[k].id],
                                !.fetched = @ + 1,
                                !.last_count = Len(out.body.data)]
                       ELSE [walk EXCEPT !.stage = "failed"]
    /\ UNCHANGED <<request, response, synth_calls, core_entered, draw, record,
                   inflight, rng, runs>>

\* The client leaves.
EndWalk ==
    /\ walk # NoWalk
    /\ walk.fetched >= 1 \/ walk.stage = "failed"
    /\ walk' = NoWalk
    /\ UNCHANGED <<request, response, synth_calls, core_entered, draw, record,
                   inflight, rng, runs>>

WalkNext == StartWalk \/ FetchPage \/ EndWalk

WalkSpec == WalkInit /\ [][WalkNext]_vars

(***************************************************************************)
(* The same parameters requested twice: of one endpoint with the generator *)
(* in two states, or of the two data endpoints.  Each request is served    *)
(* whole; both answers are kept side by side.                              *)
(***************************************************************************)
PairQueries == [page : Opt({0, 1, 2, 4}), page_size : Opt({0, 1, 3, 100, 101}),
                total_records : Opt({0, 1, 7, 10, 10001})]

\* The pairs of endpoints asked: the same one twice, or the plain one and the
\* multi-date one.
EndpointPairs ==
    {<<"/api/data", "/api/data">>,
     <<"/api/data-with-date-formats", "/api/data-with-date-formats">>,
     <<"/api/data", "/api/data-with-date-formats">>}

\* One request served, with what the generator gave it.
run_of(endpoint, q, draws) ==
    LET out == IF endpoint = "/api/data" THEN get_data(q, draws)
               ELSE get_data_with_date_formats(q, draws)
    IN  [endpoint |-> endpoint, query |-> q, status |-> out.status, body |-> out.body,
         draws |-> draws]

PairInit ==
    /\ request = NoRequest
    /\ response = NoResponse
    /\ synth_calls = <<>>
    /\ core_entered = FALSE
    /\ draw = None
    /\ record = None
    /\ inflight = [c \in Clients |-> IdleRequest]
    /\ rng = 0
    /\ walk = NoWalk
    /\ runs = <<>>

RunPair ==
    /\ runs = <<>>
    /\ \E q \in PairQueries, e \in EndpointPairs, d1 \in DrawSchedules, d2 \in DrawSchedules :
           runs' = <<run_of(e[1], q, d1), run_of(e[2], q, d2)>>
    /\ UNCHANGED <<request, response, synth_calls, core_entered, draw, record,
                   inflight, rng, walk>>

Forget ==
    /\ runs # <<>>
    /\ runs' = <<>>
    /\ UNCHANGED <<request, response, synth_calls, core_entered, draw, record,
                   inflight, rng, walk>>

PairNext == RunPair \/ Forget

PairSpec == PairInit /\ [][PairNext]_vars

(***************************************************************************)
(* Properties of the handlers.  They speak of the request just served and  *)
(* its response, and of requests that give all three parameters.           *)
(***************************************************************************)
Served == request # NoRequest

AllGiven ==
    /\ Served
    /\ request.query.page # <<>>
    /\ request.query.page_size # <<>>
    /\ request.query.total_records # <<>>

ReqPage == request.query.page[1]

ReqPageSize == request.query.page_size[1]

ReqTotal == request.query.total_records[1]

ValidRequest ==
    /\ AllGiven
    /\ ReqPage >= 1
    /\ ReqPageSize >= 1 /\ ReqPageSize <= 100
    /\ ReqTotal >= 1 /\ ReqTotal <= 10000

InvalidRequest ==
    /\ Served
    /\ \/ request.query.page # <<>> /\ ReqPage < 1
       \/ request.query.page_size # <<>> /\ (ReqPageSize < 1 \/ ReqPageSize > 100)
       \/ request.query.total_records # <<>> /\ (ReqTotal < 1 \/ ReqTotal > 10000)

Ok == response.status = 200

\* ceil(a / b) for b > 0, by quotient and remainder.
CeilDiv(a, b) == (a \div b) + (IF a % b = 0 THEN 0 ELSE 1)

Max2(a, b) == IF a >= b THEN a ELSE b

Min2(a, b) == IF a <= b THEN a ELSE b

\* a, a+1, ..., b as a sequence; empty when b < a.
Run(a, b) == [k \in 1..(b - a + 1) |-> a + k - 1]

ResponseIds == [k \in 1..Len(response.body.data) |-> response.body.data[k].id]

EnvelopeFields ==
    {"data", "total", "page", "page_size", "total_pages", "has_next", "has_previous"}

\* C1: for a valid request to either data endpoint the data list holds
\* min(page_size, max(0, total_records - (page-1)*page_size)) records.
C1_RecordCount ==
    (ValidRequest /\ Ok) =>
        Len(response.body.data)
            = Min2(ReqPageSize, Max2(0, ReqTotal - (ReqPage - 1) * ReqPageSize))

\* A short last page has been served: fewer records than page_size, more than none.
C1_Witness ==
    /\ ValidRequest /\ Ok
    /\ Len(response.body.data) > 0
    /\ Len(response.body.data) < ReqPageSize
    /\ Len(response.body.data) = ReqTotal - (ReqPage - 1) * ReqPageSize

\* C2: for a valid request total_pages is ceil(total_records / page_size): it is
\* the one n with (n-1)*page_size < total_records <= n*page_size, and it is the
\* quotient rounded up.
C2_TotalPagesIsCeiling ==
    (ValidRequest /\ Ok) =>
        /\ response.body.total_pages * ReqPageSize >= ReqTotal
        /\ (response.body.total_pages - 1) * ReqPageSize < ReqTotal
        /\ response.body.total_pages = CeilDiv(ReqTotal, ReqPageSize)

\* A total that page_size does not divide, at the upper limits of the ranges.
C2_Witness ==
    /\ ValidRequest /\ Ok
    /\ ReqTotal = 10000 /\ ReqPageSize = 99
    /\ response.body.total_pages = 102

\* C3: for a valid request, a page past the end included, has_previous is
\* (page > 1) and has_next is (page < total_pages), total_pages being the ceiling.
C3_HasNextHasPrevious ==
    (ValidRequest /\ Ok) =>
        /\ response.body.has_previous = (ReqPage > 1)
        /\ response.body.has_next = (ReqPage < response.body.total_pages)
        /\ response.body.has_next = (ReqPage < CeilDiv(ReqTotal, ReqPageSize))

\* The last page itself has been served by the date endpoint: page = total_pages > 1.
C3_Witness ==
    /\ ValidRequest /\ Ok
    /\ request.endpoint = "/api/data-with-date-formats"
    /\ ReqPage = response.body.total_pages
    /\ ReqPage > 1
    /\ ~response.body.has_next
    /\ response.body.has_previous

\* C4: the ids of a returned page are (page-1)*page_size + 1 ..
\* min(page*page_size, total_records), ascending, without gap or repeat.
C4_ContiguousIds ==
    (ValidRequest /\ Ok) =>
        ResponseIds = Run((ReqPage - 1) * ReqPageSize + 1,
                          Min2(ReqPage * ReqPageSize, ReqTotal))

\* A full inner page of the date endpoint: it starts after id 1 and ends before the total.
C4_Witness ==
    /\ ValidRequest /\ Ok
    /\ request.endpoint = "/api/data-with-date-formats"
    /\ Len(response.body.data) = ReqPageSize
    /\ ReqPageSize >= 3
    /\ response.body.data[1].id > 1
    /\ response.body.data[ReqPageSize].id < ReqTotal

\* C5: a valid request for a page past the end ((page-1)*page_size >=
\* total_records) succeeds with an empty data list and a fully populated envelope.
C5_PagePastEndSucceeds ==
    (ValidRequest /\ (ReqPage - 1) * ReqPageSize >= ReqTotal) =>
        /\ response.status = 200
        /\ DOMAIN response.body = EnvelopeFields
        /\ response.body.data = <<>>
        /\ response.body.total = ReqTotal
        /\ response.body.page = ReqPage
        /\ response.body.page_size = ReqPageSize
        /\ response.body.total_pages = CeilDiv(ReqTotal, ReqPageSize)
        /\ response.body.has_next = FALSE
        /\ response.body.has_previous = TRUE

\* The page right after the last one of the largest record set has been requested.
C5_Witness ==
    /\ ValidRequest
    /\ request.endpoint = "/api/data"
    /\ ReqTotal = 10000 /\ ReqPageSize = 100 /\ ReqPage = 101
    /\ response.status = 200
    /\ synth_calls = <<>>

\* C6: a request with page < 1, page_size outside 1..100 or total_records outside
\* 1..10000 is answered with a client error (422) and neither the pagination
\* computation nor any synthesizer call happens for it.
C6_InvalidRejectedAtBoundary ==
    InvalidRequest =>
        /\ response.status = 422
        /\ ~core_entered
        /\ synth_calls = <<>>
        /\ DOMAIN response.body = {"detail"}
        /\ response.body.detail # {}

\* A request whose only fault is page_size = 101 has been rejected.
C6_Witness ==
    /\ AllGiven
    /\ request.endpoint = "/api/data"
    /\ ReqPage >= 1 /\ ReqTotal >= 1 /\ ReqTotal <= 10000
    /\ ReqPageSize = 101
    /\ response.status = 422

\* C7: every valid request to either data endpoint succeeds: the response is
\* 200, no synthesizer call of the planned range raised, and the data list
\* holds one record per call.
C7_TotalOverValidInput ==
    ValidRequest =>
        /\ response.status = 200
        /\ core_entered
        /\ Len(response.body.data) = Len(synth_calls)
        /\ \A k \in 1..Len(response.body.data) : ~IsExc(response.body.data[k])

\* A full page of 100 records has been synthesized and returned.
C7_Witness ==
    /\ ValidRequest
    /\ response.status = 200
    /\ Len(synth_calls) = 100
    /\ Len(response.body.data) = 100

(***************************************************************************)
(* Properties of the multi-date record.  The decoders read a rendering     *)
(* back under its own format, as a reader of the response would.           *)
(***************************************************************************)
IsDigit(c) == \E n \in 0..9 : DigitChar[n + 1] = c

DigitValue(c) == CHOOSE n \in 0..9 : DigitChar[n + 1] = c

RECURSIVE Number(_)
Number(s) ==
    IF s = <<>> THEN 0
    ELSE Number(SubSeq(s, 1, Len(s) - 1)) * 10 + DigitValue(s[Len(s)])

AllDigits(s, positions) == \A i \in positions : IsDigit(s[i])

Malformed == Raise("malformed")

\* YYYY-MM-DD
decode_iso_date(s) ==
    IF Len(s) = 10 /\ s[5] = "-" /\ s[8] = "-" /\ AllDigits(s, (1..10) \ {5, 8})
    THEN date(Number(SubSeq(s, 1, 4)), Number(SubSeq(s, 6, 7)), Number(SubSeq(s, 9, 10)))
    ELSE Malformed

\* MM/DD/YYYY
decode_us_date(s) ==
    IF Len(s) = 10 /\ s[3] = "/" /\ s[6] = "/" /\ AllDigits(s, (1..10) \ {3, 6})
    THEN date(Number(SubSeq(s, 7, 10)), Number(SubSeq(s, 1, 2)), Number(SubSeq(s, 4, 5)))
    ELSE Malformed

\* DD/MM/YYYY
decode_eu_date(s) ==
    IF Len(s) = 10 /\ s[3] = "/" /\ s[6] = "/" /\ AllDigits(s, (1..10) \ {3, 6})
    THEN date(Number(SubSeq(s, 7, 10)), Number(SubSeq(s, 4, 5)), Number(SubSeq(s, 1, 2)))
    ELSE Malformed

StartsWith(s, prefix) ==
    Len(s) >= Len(prefix) /\ SubSeq(s, 1, Len(prefix)) = prefix

\* Month DD, YYYY
decode_long_date(s) ==
    LET months == {m \in 1..12 : StartsWith(s, MonthName[m])}
    IN  IF Cardinality(months) # 1 THEN Malformed
        ELSE LET m == CHOOSE x \in months : TRUE
                 r == SubSeq(s, Len(MonthName[m]) + 1, Len(s))
             IN  IF Len(r) = 9 /\ r[1] = " " /\ r[4] = "," /\ r[5] = " "
                    /\ AllDigits(r, {2, 3, 6, 7, 8, 9})
                 THEN date(Number(SubSeq(r, 6, 9)), m, Number(SubSeq(r, 2, 3)))
                 ELSE Malformed

\* YYYY-MM-DDTHH:MM:SS or YYYY-MM-DDTHH:MM:SS.ffffff
decode_iso_datetime(s) ==
    IF /\ Len(s) \in {19, 26}
       /\ s[5] = "-" /\ s[8] = "-" /\ s[11] = "T" /\ s[14] = ":" /\ s[17] = ":"
       /\ AllDigits(s, (1..19) \ {5, 8, 11, 14, 17})
       /\ Len(s) = 26 => (s[20] = "." /\ AllDigits(s, 21..26))
    THEN [year |-> Number(SubSeq(s, 1, 4)),
          month |-> Number(SubSeq(s, 6, 7)),
          day |-> Number(SubSeq(s, 9, 10)),
          hour |-> Number(SubSeq(s, 12, 13)),
          minute |-> Number(SubSeq(s, 15, 16)),
          second |-> Number(SubSeq(s, 18, 19)),
          microsecond |-> IF Len(s) = 26 THEN Number(SubSeq(s, 21, 26)) ELSE 0]
    ELSE Malformed

\* Www, Mmm DD YYYY II:MM PP; the fields the format does not carry are 0.
decode_readable_datetime(s) ==
    LET days == {w \in 1..7 : StartsWith(s, DayAbbr[w])}
        months == {m \in 1..12 : Len(s) >= 8 /\ SubSeq(s, 6, 8) = MonthAbbr[m]}
    IN  IF /\ Len(s) = 25
           /\ Cardinality(days) = 1 /\ Cardinality(months) = 1
           /\ s[4] = "," /\ s[5] = " " /\ s[9] = " " /\ s[12] = " " /\ s[17] = " "
           /\ s[20] = ":" /\ s[23] = " "
           /\ AllDigits(s, {10, 11, 13, 14, 15, 16, 18, 19, 21, 22})
           /\ SubSeq(s, 24, 25) \in {<<"A", "M">>, <<"P", "M">>}
           /\ Number(SubSeq(s, 18, 19)) \in 1..12
        THEN [year |-> Number(SubSeq(s, 13, 16)),
              month |-> CHOOSE m \in months : TRUE,
              day |-> Number(SubSeq(s, 10, 11)),
              hour |-> (Number(SubSeq(s, 18, 19)) % 12)
                           + (IF SubSeq(s, 24, 25) = <<"P", "M">> THEN 12 ELSE 0),
              minute |-> Number(SubSeq(s, 21, 22)),
              second |-> 0,
              microsecond |-> 0]
        ELSE Malformed

\* The civil date of a day number counted from 1970-01-01 (day 0).
civil_from_days(n) ==
    LET z == n + 719468
        era == z \div 146097
        doe == z - era * 146097
        yoe == (doe - (doe \div 1460) + (doe \div 36524) - (doe \div 146096)) \div 365
        doy == doe - (365 * yoe + (yoe \div 4) - (yoe \div 100))
        mp == (5 * doy + 2) \div 153
        m == IF mp < 10 THEN mp + 3 ELSE mp - 9
    IN  [year |-> yoe + era * 400 + (IF m <= 2 THEN 1 ELSE 0),
         month |-> m,
         day |-> doy - ((153 * mp + 2) \div 5) + 1]

\* A Unix timestamp read as local time of a zone utcoffset seconds east of UTC,
\* to the second.
decode_timestamp(ts, utcoffset) ==
    LET local == ts + utcoffset
        civil == civil_from_days(local \div 86400)
        sod == local % 86400
    IN  [year |-> civil.year, month |-> civil.month, day |-> civil.day,
         hour |-> sod \div 3600, minute |-> (sod % 3600) \div 60, second |-> sod % 60]

\* A decoded date and time cut to the second.
ToSecond(dt) ==
    [year |-> dt.year, month |-> dt.month, day |-> dt.day,
     hour |-> dt.hour, minute |-> dt.minute, second |-> dt.second]

MultiDateRecord ==
    /\ synth_calls = <<"generate_data_object_with_different_dates">>
    /\ ~IsNone(record)
    /\ ~IsExc(record)

BirthRenderingsAgree ==
    LET iso == decode_iso_date(record.birth_date_iso)
    IN  /\ ~IsExc(iso)
        /\ decode_us_date(record.birth_date_us) = iso
        /\ decode_eu_date(record.birth_date_eu) = iso
        /\ decode_long_date(record.birth_date_long) = iso

IsoAndTimestampAgree ==
    LET iso == decode_iso_datetime(record.created_at_iso)
    IN  /\ ~IsExc(iso)
        /\ ToSecond(iso) = decode_timestamp(record.created_at_timestamp, draw.zone)

ReadableAgrees ==
    LET readable == decode_readable_datetime(record.created_at_readable)
        iso == decode_iso_datetime(record.created_at_iso)
    IN  /\ ~IsExc(readable)
        /\ ~IsExc(iso)
        /\ ToSecond(readable) = ToSecond(iso)
        /\ ToSecond(readable) = decode_timestamp(record.created_at_timestamp, draw.zone)

\* C8: in every multi-date record birth_date_iso, birth_date_us, birth_date_eu
\* and birth_date_long, each decoded under its own format, give the same year,
\* month and day.
C8_BirthRenderingsSameDate == MultiDateRecord => BirthRenderingsAgree

\* A record whose birth date reads as another date when month and day are
\* taken in the wrong order.
C8_Witness ==
    /\ MultiDateRecord
    /\ decode_iso_date(record.birth_date_iso).day <= 12
    /\ decode_iso_date(record.birth_date_iso).day
           # decode_iso_date(record.birth_date_iso).month
    /\ record.birth_date_us # record.birth_date_eu
    /\ ~IsExc(decode_us_date(record.birth_date_eu))

\* C9: in every multi-date record created_at_iso and created_at_timestamp decode
\* to the same instant to the second (the zone-less ISO text read in the
\* server's zone, the timestamp as seconds since the epoch).
C9_IsoAndTimestampSameInstant == MultiDateRecord => IsoAndTimestampAgree

\* A record created in the second half of a second, in a zone away from UTC.
C9_Witness ==
    /\ MultiDateRecord
    /\ Len(record.created_at_iso) = 26
    /\ decode_iso_datetime(record.created_at_iso).microsecond >= 500000
    /\ draw.zone # 0
    /\ record.created_at_timestamp > 0

\* C10: all renderings of one multi-date record decode to the same value: the
\* birth renderings to one date, and created_at_readable to the instant of
\* created_at_iso and created_at_timestamp.
C10_AllRenderingsSameValue ==
    MultiDateRecord => (BirthRenderingsAgree /\ IsoAndTimestampAgree /\ ReadableAgrees)

(***************************************************************************)
(* Properties of the records of either synthesizer.                        *)
(***************************************************************************)
SynthesizedRecord ==
    /\ synth_calls # <<>>
    /\ ~IsNone(record)
    /\ ~IsExc(record)

Entries(seq) == {seq[i] : i \in 1..Len(seq)}

NoRepeat(seq) == \A i, j \in 1..Len(seq) : i # j => seq[i] # seq[j]

TagVocabulary ==
    {"python", "javascript", "api", "web", "mobile", "data", "ai", "ml",
     "backend", "frontend", "database", "cloud", "devops", "security"}

SkillVocabulary == {"Python", "Java", "React", "Node.js", "SQL", "Docker"}

\* C11: in every record of either synthesizer tags has 1 to 5 entries, each
\* from the 14-entry vocabulary, none twice.
C11_TagsDistinctFromVocabulary ==
    SynthesizedRecord =>
        /\ Len(record.tags) >= 1 /\ Len(record.tags) <= 5
        /\ Entries(record.tags) \subseteq TagVocabulary
        /\ Cardinality(TagVocabulary) = 14
        /\ NoRepeat(record.tags)

\* A multi-date record with five tags drawn from a turned vocabulary.
C11_Witness ==
    /\ MultiDateRecord
    /\ Len(record.tags) = 5
    /\ record.tags[1] = "security"
    /\ record.tags[5] = "web"

\* C12: in every record of either synthesizer metadata.skills has 2 to 4
\* entries, each from the 6-entry vocabulary, none twice.
C12_SkillsDistinctFromVocabulary ==
    SynthesizedRecord =>
        /\ Len(record.metadata.skills) >= 2 /\ Len(record.metadata.skills) <= 4
        /\ Entries(record.metadata.skills) \subseteq SkillVocabulary
        /\ Cardinality(SkillVocabulary) = 6
        /\ NoRepeat(record.metadata.skills)

\* A standard record with four skills in an order that is neither the
\* vocabulary's nor its reverse.
C12_Witness ==
    /\ SynthesizedRecord
    /\ synth_calls = <<"generate_data_object">>
    /\ record.metadata.skills = <<"SQL", "Python", "Docker", "Java">>

\* The record of the next state has score present iff sp and description
\* present iff dp.
NextRecordHas(sp, dp) ==
    /\ ~IsExc(record')
    /\ IsNone(record'.score) = ~sp
    /\ IsNone(record'.description) = ~dp

\* C13: score and description are present or null independently: from the
\* state before a call, each synthesizer can return each of the four
\* combinations; and in a returned record each field is present exactly when
\* its own coin says so.
C13_ScoreDescriptionIndependent ==
    /\ IsNone(record) =>
           \A sp, dp \in BOOLEAN :
               /\ ENABLED (GenerateDataObject /\ NextRecordHas(sp, dp))
               /\ ENABLED (GenerateDataObjectWithDifferentDates /\ NextRecordHas(sp, dp))
    /\ SynthesizedRecord =>
           /\ IsNone(record.score) = ~draw.score_choice
           /\ IsNone(record.description) = ~draw.description_choice

\* A multi-date record with a description and no score.
C13_Witness ==
    /\ MultiDateRecord
    /\ IsNone(record.score)
    /\ ~IsNone(record.description)

(***************************************************************************)
(* Further properties of the handlers.                                     *)
(***************************************************************************)
SomeOmitted ==
    /\ Served
    /\ \/ request.query.page = <<>>
       \/ request.query.page_size = <<>>
       \/ request.query.total_records = <<>>

\* The parameters of the request with 1, 10 and 1000 for the omitted ones.
EffPage == IF request.query.page = <<>> THEN 1 ELSE request.query.page[1]

EffPageSize == IF request.query.page_size = <<>> THEN 10 ELSE request.query.page_size[1]

EffTotal ==
    IF request.query.total_records = <<>> THEN 1000 ELSE request.query.total_records[1]

EffValid ==
    /\ EffPage >= 1
    /\ EffPageSize >= 1 /\ EffPageSize <= 100
    /\ EffTotal >= 1 /\ EffTotal <= 10000

\* The response is the one the parameters p, s, t call for.
AnswersAs(p, s, t) ==
    /\ response.status = 200
    /\ response.body.page = p
    /\ response.body.page_size = s
    /\ response.body.total = t
    /\ response.body.total_pages = CeilDiv(t, s)
    /\ response.body.has_next = (p < CeilDiv(t, s))
    /\ response.body.has_previous = (p > 1)
    /\ ResponseIds = Run((p - 1) * s + 1, Min2(p * s, t))

\* C14: a request that omits page, page_size or total_records is served, on
\* both data endpoints, as if 1, 10 and 1000 had been given for the omitted
\* ones (accepted or rejected alike); with no parameter at all the ids are
\* 1..10 and total_pages is 100.  The endpoint list documents the same defaults.
C14_DefaultsWhenOmitted ==
    SomeOmitted =>
        /\ EffValid => AnswersAs(EffPage, EffPageSize, EffTotal)
        /\ ~EffValid => response.status = 422
        /\ request.query = [page |-> <<>>, page_size |-> <<>>, total_records |-> <<>>]
               => (ResponseIds = Run(1, 10) /\ response.body.total_pages = 100)
        /\ get_available_endpoints_defaults(request.endpoint)
               = [page |-> 1, page_size |-> 10, total_records |-> 1000]

\* A request without parameters has been served by /api/data.
C14_Witness ==
    /\ Served
    /\ request.endpoint = "/api/data"
    /\ request.query = [page |-> <<>>, page_size |-> <<>>, total_records |-> <<>>]
    /\ response.status = 200
    /\ Len(response.body.data) = 10
    /\ response.body.total = 1000

\* C15: for every valid request, a page past the end included, the envelope's
\* total, page and page_size are the request's total_records, page and
\* page_size unchanged (page is not clamped to total_pages).
C15_EnvelopeEchoesRequest ==
    ValidRequest =>
        /\ response.status = 200
        /\ response.body.total = ReqTotal
        /\ response.body.page = ReqPage
        /\ response.body.page_size = ReqPageSize

\* The date endpoint has answered for page 100 of a set that has fewer pages.
C15_Witness ==
    /\ ValidRequest
    /\ request.endpoint = "/api/data-with-date-formats"
    /\ ReqPage = 100
    /\ response.status = 200
    /\ response.body.total_pages < 100
    /\ response.body.page = 100

(***************************************************************************)
(* The scenarios.                                                          *)
(***************************************************************************)
Scenario(p, s, t) ==
    /\ AllGiven
    /\ ReqPage = p
    /\ ReqPageSize = s
    /\ ReqTotal = t

\* C17: page=1, page_size=3, total_records=10 returns the 3 records with ids
\* 1, 2, 3, total_pages=4, has_previous=false and has_next=true.
C17_ScenarioFirstPage ==
    Scenario(1, 3, 10) =>
        /\ response.status = 200
        /\ Len(response.body.data) = 3
        /\ ResponseIds = <<1, 2, 3>>
        /\ response.body.total_pages = 4
        /\ response.body.has_previous = FALSE
        /\ response.body.has_next = TRUE

\* /api/data has served the first page of 3 out of 10.
C17_Witness ==
    /\ Scenario(1, 3, 10)
    /\ request.endpoint = "/api/data"
    /\ synth_calls = <<1, 2, 3>>

\* C18: page=4, page_size=3, total_records=10, the short last page, returns
\* exactly 1 record, with id 10, has_next=false and has_previous=true.
C18_ScenarioShortLastPage ==
    Scenario(4, 3, 10) =>
        /\ response.status = 200
        /\ Len(response.body.data) = 1
        /\ response.body.data[1].id = 10
        /\ response.body.has_next = FALSE
        /\ response.body.has_previous = TRUE

\* /api/data has served the fourth page of 3 out of 10.
C18_Witness ==
    /\ Scenario(4, 3, 10)
    /\ request.endpoint = "/api/data"
    /\ synth_calls = <<10>>

\* C19: page=5, page_size=3, total_records=10, one page past the end, returns
\* 0 records, has_next=false, has_previous=true and total_pages=4.
C19_ScenarioPastTheEnd ==
    Scenario(5, 3, 10) =>
        /\ response.status = 200
        /\ Len(response.body.data) = 0
        /\ response.body.has_next = FALSE
        /\ response.body.has_previous = TRUE
        /\ response.body.total_pages = 4

\* /api/data has answered for the fifth page of 3 out of 10 without a
\* synthesizer call.
C19_Witness ==
    /\ Scenario(5, 3, 10)
    /\ request.endpoint = "/api/data"
    /\ core_entered
    /\ synth_calls = <<>>

\* C20: page_size=100, total_records=1, on page 1 (given or by default),
\* returns total_pages=1 and exactly 1 record.
C20_ScenarioPageLargerThanSet ==
    (/\ Served
     /\ EffPage = 1
     /\ request.query.page_size = <<100>>
     /\ request.query.total_records = <<1>>) =>
        /\ response.status = 200
        /\ response.body.total_pages = 1
        /\ Len(response.body.data) = 1

\* /api/data has served page_size=100, total_records=1 with page omitted.
C20_Witness ==
    /\ Served
    /\ request.endpoint = "/api/data"
    /\ request.query = [page |-> <<>>, page_size |-> <<100>>, total_records |-> <<1>>]
    /\ synth_calls = <<1>>

(***************************************************************************)
(* Properties of the service under concurrent requests.                    *)
(***************************************************************************)
GivenOr(param, default) == IF param = <<>> THEN default ELSE param[1]

IdsOf(data) == [k \in 1..Len(data) |-> data[k].id]

\* What the request r alone calls for, whatever the other requests do or did:
\* while it runs, the ids made so far; once answered, the envelope metadata
\* and the ids, or the rejection.
OwnOutcome(r) ==
    LET p == GivenOr(r.query.page, 1)
        s == GivenOr(r.query.page_size, 10)
        t == GivenOr(r.query.total_records, 1000)
        valid == p >= 1 /\ s >= 1 /\ s <= 100 /\ t >= 1 /\ t <= 10000
    IN  /\ (r.stage = "running") =>
               (valid /\ IdsOf(r.data) = Run((p - 1) * s + 1, r.next_index))
        /\ (r.stage = "responded" /\ valid) =>
               /\ r.status = 200
               /\ r.body.total = t
               /\ r.body.page = p
               /\ r.body.page_size = s
               /\ r.body.total_pages = CeilDiv(t, s)
               /\ r.body.has_next = (p < CeilDiv(t, s))
               /\ r.body.has_previous = (p > 1)
               /\ IdsOf(r.body.data) = Run((p - 1) * s + 1, Min2(p * s, t))
        /\ (r.stage = "responded" /\ ~valid) =>
               /\ r.status = 422
               /\ r.data = <<>>
               /\ DOMAIN r.body = {"detail"}

\* C16: requests are independent: in every interleaving of the requests in
\* flight, each response's envelope metadata and record ids are those its own
\* page, page_size and total_records call for, and a connection whose request
\* is over (answered, rejected or failed) holds nothing of it.
C16_RequestsIndependent ==
    \A c \in Clients :
        /\ OwnOutcome(inflight[c])
        /\ (inflight[c].stage = "idle") => (inflight[c] = IdleRequest)

\* Two requests of different endpoints are both in the middle of their loops,
\* one record each, after earlier requests have used the generator.
C16_Witness ==
    /\ inflight["a"].stage = "running"
    /\ inflight["b"].stage = "running"
    /\ inflight["a"].endpoint # inflight["b"].endpoint
    /\ Len(inflight["a"].data) = 1
    /\ Len(inflight["b"].data) = 1
    /\ inflight["a"].query.page = <<>>
    /\ inflight["b"].query.page = <<2>>
    /\ rng = 0

\* The index range the request r plans: start (inclusive) and end (exclusive).
PlannedStart(r) == (GivenOr(r.query.page, 1) - 1) * GivenOr(r.query.page_size, 10)

PlannedEnd(r) ==
    Min2(GivenOr(r.query.page, 1) * GivenOr(r.query.page_size, 10),
         GivenOr(r.query.total_records, 1000))

\* The synthesizer of an endpoint called with identity id on the generator
\* output at position g.
Invocation(endpoint, id, g) ==
    IF endpoint = "/api/data"
    THEN generate_data_object(id, RngStream[g + 1])
    ELSE generate_data_object_with_different_dates(id, RngStream[g + 1])

\* The loop of the request on connection c has come as far as its data list
\* is long, and the returned list is the whole planned range.
LoopProgress(c) ==
    LET r == inflight[c]
    IN  /\ (r.stage = "running") =>
               /\ r.next_index = PlannedStart(r) + Len(r.data)
               /\ IdsOf(r.data) = Run(PlannedStart(r) + 1, r.next_index)
        /\ (r.stage = "responded" /\ r.status = 200) =>
               /\ r.body.data = r.data
               /\ Len(r.data) = Max2(0, PlannedEnd(r) - PlannedStart(r))
               /\ IdsOf(r.data) = Run(PlannedStart(r) + 1, PlannedEnd(r))

\* A step that changes the data list of a request in flight is one synthesizer
\* call for the next index of the planned range, with identity index + 1, whose
\* result becomes the last record of the list.
LoopStep(c) ==
    LET r == inflight[c]
        after == inflight'[c]
    IN  (after.stage # "idle" /\ after.data # r.data) =>
            /\ r.stage = "running"
            /\ r.next_index >= PlannedStart(r)
            /\ r.next_index < PlannedEnd(r)
            /\ after.next_index = r.next_index + 1
            /\ Len(after.data) = Len(r.data) + 1
            /\ SubSeq(after.data, 1, Len(r.data)) = r.data
            /\ after.data[Len(after.data)].id = r.next_index + 1
            /\ after.data[Len(after.data)]
                   = Invocation(r.endpoint, r.next_index + 1, rng)

\* C21: while a request is served the synthesizer is invoked exactly once per
\* index of the planned range, in ascending order, each time with identity
\* index + 1, and the k-th record of the data list is the result of the k-th
\* invocation.
C21_OneCallPerIndexInOrder ==
    /\ [](\A c \in Clients : LoopProgress(c))
    /\ [][\A c \in Clients : LoopStep(c)]_vars

\* The date endpoint has returned two records while another request was
\* rejected.
C21_Witness ==
    /\ inflight["a"].endpoint = "/api/data-with-date-formats"
    /\ inflight["a"].stage = "responded"
    /\ inflight["a"].status = 200
    /\ Len(inflight["a"].body.data) = 2
    /\ inflight["b"].status = 422

(***************************************************************************)
(* Ranges of the dates of a record.                                        *)
(***************************************************************************)
\* C22: in a multi-date record the creation instant has year 2020..2024, month
\* 1..12, day 1..28, hour 0..23 and minute 0..59, and its second and
\* microsecond are those the wall clock showed at the call.
C22_CreationInstantRanges ==
    MultiDateRecord =>
        LET created == decode_iso_datetime(record.created_at_iso)
        IN  /\ ~IsExc(created)
            /\ created.year >= 2020 /\ created.year <= 2024
            /\ created.month >= 1 /\ created.month <= 12
            /\ created.day >= 1 /\ created.day <= 28
            /\ created.hour >= 0 /\ created.hour <= 23
            /\ created.minute >= 0 /\ created.minute <= 59
            /\ created.second = draw.now.second
            /\ created.microsecond = draw.now.microsecond

\* A record made when the wall clock read 2025-12-31 23:59:59.999999: every
\* field but second and microsecond has been replaced.
C22_Witness ==
    /\ MultiDateRecord
    /\ draw.now = NowLate
    /\ decode_iso_datetime(record.created_at_iso).year = 2020
    /\ decode_iso_datetime(record.created_at_iso).day = 1
    /\ decode_iso_datetime(record.created_at_iso).hour = 0
    /\ decode_iso_datetime(record.created_at_iso).second = 59
    /\ decode_iso_datetime(record.created_at_iso).microsecond = 999999

\* The birth date of the record, whichever synthesizer made it.
BirthDateText ==
    IF synth_calls = <<"generate_data_object">>
    THEN record.birth_date
    ELSE record.birth_date_iso

\* C23: in every record of either synthesizer the birth date has year
\* 1940..2005, month 1..12 and day 1..28: it is a date of the calendar, and day
\* 29, 30 or 31 never occurs.
C23_BirthDateRanges ==
    SynthesizedRecord =>
        LET birth == decode_iso_date(BirthDateText)
        IN  /\ ~IsExc(birth)
            /\ birth.year >= 1940 /\ birth.year <= 2005
            /\ birth.month >= 1 /\ birth.month <= 12
            /\ birth.day >= 1 /\ birth.day <= 28

\* A standard record born on the last day number of February 2005.
C23_Witness ==
    /\ SynthesizedRecord
    /\ synth_calls = <<"generate_data_object">>
    /\ decode_iso_date(record.birth_date) = [year |-> 2005, month |-> 2, day |-> 28]

\* C24: a description that is present is the fixed template with the id of the
\* record it sits in: on a returned page no description names another
\* record's id.
C24_DescriptionEmbedsOwnId ==
    (Served /\ Ok) =>
        \A k \in 1..Len(response.body.data) :
            ~IsNone(response.body.data[k].description) =>
                /\ response.body.data[k].description.template
                       = "This is a sample description for user {id}"
                /\ response.body.data[k].description.id = response.body.data[k].id

\* A page of three records after the first page: the first and the third have
\* a description, the second has none.
C24_Witness ==
    /\ ValidRequest /\ Ok
    /\ Len(response.body.data) = 3
    /\ response.body.data[1].id > 1
    /\ ~IsNone(response.body.data[1].description)
    /\ IsNone(response.body.data[2].description)
    /\ ~IsNone(response.body.data[3].description)
    /\ response.body.data[3].description.id = response.body.data[1].id + 2

\* C27: for every valid request 1 <= total_pages <= total_records; a page up to
\* total_pages is not empty, a page before the last holds exactly page_size
\* records, and a page after total_pages is empty.
C27_PageCountAndFill ==
    (ValidRequest /\ Ok) =>
        /\ response.body.total_pages >= 1
        /\ response.body.total_pages <= ReqTotal
        /\ (ReqPage <= response.body.total_pages) => (Len(response.body.data) >= 1)
        /\ (ReqPage < response.body.total_pages) => (Len(response.body.data) = ReqPageSize)
        /\ (ReqPage > response.body.total_pages) => (Len(response.body.data) = 0)

\* The last page of a set that page_size divides, one record per page: as many
\* pages as records.
C27_Witness ==
    /\ ValidRequest /\ Ok
    /\ request.endpoint = "/api/data-with-date-formats"
    /\ ReqPageSize = 1
    /\ ReqTotal > 1
    /\ response.body.total_pages = ReqTotal
    /\ ReqPage = ReqTotal
    /\ Len(response.body.data) = 1

(***************************************************************************)
(* Properties of a walk through the pages.                                 *)
(***************************************************************************)
Walking == walk.stage = "walking"

\* C25: walking pages 1, 2, ..., total_pages with page_size and total_records
\* fixed and concatenating the id lists gives exactly 1, 2, ..., total_records;
\* on the way the list is always the run of the ids of the pages fetched.
C25_WalkYieldsEveryIdOnce ==
    Walking =>
        /\ walk.ids = Run(1, Min2(walk.fetched * walk.page_size, walk.total_records))
        /\ (walk.fetched >= 1 /\ walk.fetched = walk.total_pages) =>
               walk.ids = Run(1, walk.total_records)

\* The date endpoint has been walked to its last page, the fourth of 3 out of 10.
C25_Witness ==
    /\ Walking
    /\ walk.endpoint = "/api/data-with-date-formats"
    /\ walk.page_size = 3
    /\ walk.total_records = 10
    /\ walk.fetched = 4
    /\ walk.total_pages = 4
    /\ Len(walk.ids) = 10

\* C26: has_next is true exactly when the request for page + 1, with the same
\* page_size and total_records, returns at least one record: each page the
\* walk fetches is not empty iff the page before it said has_next.
C26_HasNextIsContinuation ==
    [][(Walking /\ walk.fetched >= 1 /\ walk'.stage = "walking"
            /\ walk'.fetched = walk.fetched + 1)
        => (walk.has_next = (walk'.last_count >= 1))]_vars

\* /api/data has been asked for the page after the last one and has returned
\* no record.
C26_Witness ==
    /\ Walking
    /\ walk.endpoint = "/api/data"
    /\ walk.total_pages >= 2
    /\ walk.fetched = walk.total_pages + 1
    /\ walk.last_count = 0
    /\ ~walk.has_next

(***************************************************************************)
(* Properties of two answers to the same parameters.                       *)
(***************************************************************************)
BothAnswered == runs # <<>> /\ runs[1].status = 200 /\ runs[2].status = 200

PlainFields ==
    {"id", "uuid", "name", "email", "age", "height", "weight", "is_active", "balance",
     "birth_date", "created_at", "tags", "metadata", "score", "description"}

MultiDateFields ==
    {"id", "uuid", "name", "email", "age", "height", "weight", "is_active", "balance",
     "birth_date_iso", "birth_date_us", "birth_date_eu", "birth_date_long",
     "created_at_iso", "created_at_timestamp", "created_at_readable",
     "tags", "metadata", "score", "description"}

\* C28: for the same page, page_size and total_records, /api/data and
\* /api/data-with-date-formats return the same total, page, page_size,
\* total_pages, has_next and has_previous and the same sequence of ids; the
\* responses differ only in the variant of the records.
C28_EndpointsAgreeOnMetadataAndIds ==
    (BothAnswered /\ runs[1].endpoint = "/api/data"
        /\ runs[2].endpoint = "/api/data-with-date-formats") =>
        /\ \A f \in EnvelopeFields \ {"data"} : runs[1].body[f] = runs[2].body[f]
        /\ IdsOf(runs[1].body.data) = IdsOf(runs[2].body.data)
        /\ \A k \in 1..Len(runs[1].body.data) :
               DOMAIN runs[1].body.data[k] = PlainFields
        /\ \A k \in 1..Len(runs[2].body.data) :
               DOMAIN runs[2].body.data[k] = MultiDateFields

\* Both endpoints have answered page 2 of 3 out of 7, with the generator in
\* different states.
C28_Witness ==
    /\ BothAnswered
    /\ runs[1].endpoint = "/api/data"
    /\ runs[2].endpoint = "/api/data-with-date-formats"
    /\ runs[1].query = [page |-> <<2>>, page_size |-> <<3>>, total_records |-> <<7>>]
    /\ runs[1].draws # runs[2].draws
    /\ Len(runs[2].body.data) = 3
    /\ runs[2].body.has_next
    /\ runs[2].body.has_previous

\* C29: two runs of the same request whose random draws differ agree on
\* total_pages, has_next, has_previous, the number of records and every id.
C29_DrawsLeaveMetadataAndIds ==
    (BothAnswered /\ runs[1].endpoint = runs[2].endpoint
        /\ runs[1].draws # runs[2].draws) =>
        /\ runs[1].body.total_pages = runs[2].body.total_pages
        /\ runs[1].body.has_next = runs[2].body.has_next
        /\ runs[1].body.has_previous = runs[2].body.has_previous
        /\ Len(runs[1].body.data) = Len(runs[2].body.data)
        /\ \A k \in 1..Len(runs[1].body.data) :
               runs[1].body.data[k].id = runs[2].body.data[k].id

\* /api/data has answered the same request twice with different draws: the
\* records carry the same ids and differ in other fields.
C29_Witness ==
    /\ BothAnswered
    /\ runs[1].endpoint = "/api/data"
    /\ runs[2].endpoint = "/api/data"
    /\ runs[1].draws # runs[2].draws
    /\ Len(runs[1].body.data) >= 2
    /\ \A k \in 1..Len(runs[1].body.data) :
           /\ runs[1].body.data[k].id = runs[2].body.data[k].id
           /\ runs[1].body.data[k].uuid # runs[2].body.data[k].uuid
           /\ runs[1].body.data[k] # runs[2].body.data[k]

====
